---- MODULE Spec2Model ----
(***************************************************************************)
(* Model of connalysis.network.topology (and of its older copy,            *)
(* library/topology.py): the orchestration layer around the external        *)
(* flag-complex solvers.  Every public function is one action that runs    *)
(* the whole function on inputs drawn from small sets and leaves, in the    *)
(* state, what the caller and the environment can observe: how the call     *)
(* ended, what it returned, the solver invocations it made (in order) and   *)
(* the temporary files on disk.                                            *)
(***************************************************************************)
EXTENDS Integers, Sequences, FiniteSets, TLC

VARIABLES pc, op, args, outcome, result, calls, files, created

vars == <<pc, op, args, outcome, result, calls, files, created>>

(***************************************************************************)
(* Bounds of the model.                                                    *)
(***************************************************************************)
\* min_dim and finite max_dim range over 0..MaxDim
MaxDim == 3
\* approximation schedules have at most MaxLen entries
MaxLen == 3
\* schedule entries range over -1..MaxApprox
MaxApprox == 1

\* np.inf: an unbounded max_dim (its default [] is turned into np.inf)
Inf == 1000

(***************************************************************************)
(* Python values.                                                          *)
(***************************************************************************)
\* the value None and an integer, where an argument may be either
None == [none |-> TRUE, n |-> 0]
Some(n) == [none |-> FALSE, n |-> n]

Last(s) == s[Len(s)]

\* numpy indexing a[k], k counted from 0, negative k counted from the end
PyIndexOk(a, k) == (0 <= k /\ k < Len(a)) \/ (k < 0 /\ -k <= Len(a))
PyIndex(a, k) == IF k >= 0 THEN a[k + 1] ELSE a[Len(a) + k + 1]

Min(S) == CHOOSE x \in S : \A y \in S : x <= y

\* np.arange(size) + min_dim
arange(size, min_dim) == [i \in 1..size |-> i - 1 + min_dim]

\* np.where(diff != 0)[0] + 1: the indices (from 0) where the value changes
slice_indx(approximation) ==
    {i \in 1..(Len(approximation) - 1) : approximation[i + 1] # approximation[i]}

\* np.split(arr, points): the pieces of arr between the split indices
RECURSIVE np_split(_, _, _)
np_split(arr, points, from) ==
    LET later == {p \in points : p > from}
    IN IF later = {}
       THEN << SubSeq(arr, from + 1, Len(arr)) >>
       ELSE << SubSeq(arr, from + 1, Min(later)) >> \o np_split(arr, points, Min(later))

(***************************************************************************)
(* chunk_approx_and_dims                                                   *)
(***************************************************************************)
NoChunks(e) == [outcome |-> e, dim_chunks |-> <<>>, approx_chunks |-> <<>>]

length_ok_strict(size, min_dim, max_dim) == size - 1 < max_dim - min_dim
\* the assertion "approximation list too long for the dimension range"
length_ok(size, min_dim, max_dim) == size - 1 <= max_dim - min_dim

tail_chunk_from_last(last, max_dim) == <<last, max_dim>>
\* the chunk appended after the schedule: [dim_chunks[-1][-1] + 1, max_dim]
tail_chunk(last, max_dim) == <<last + 1, max_dim>>

\* dim_chunks[-1][-1] = -1
open_ended(chunk) == [chunk EXCEPT ![Len(chunk)] = -1]

\* dim_chunks after the if/else on approximation[-1]
dim_chunks_of(min_dim, max_dim, approximation) ==
    LET size == Len(approximation)
        split == np_split(arange(size, min_dim), slice_indx(approximation), 0)
        n == Len(split)
    IN IF approximation[size] = -1
       THEN [split EXCEPT ![n] = open_ended(split[n])]
       ELSE IF Last(split[n]) < max_dim
            THEN Append(split, tail_chunk(Last(split[n]), max_dim))
            ELSE split

\* the condition under which the loop sets a = -1 for chunk j (counted from 1)
exact_tail(min_dim, max_dim, approximation, j, n) ==
    /\ Len(approximation) < max_dim - min_dim + 1
    /\ Last(approximation) # -1
    /\ j = n

\* approximation ranges over lists of Python ints, for which the first assertion
\* ("approximation must be a list of integers") holds
chunk_approx_and_dims(min_dim, max_dim, approximation) ==
    LET size == Len(approximation)
        dim_chunks == dim_chunks_of(min_dim, max_dim, approximation)
        n == Len(dim_chunks)
        idx(j) == dim_chunks[j][1] - min_dim
        index_error == \E j \in 1..n :
                          /\ ~exact_tail(min_dim, max_dim, approximation, j, n)
                          /\ ~PyIndexOk(approximation, idx(j))
        approx_chunks == [j \in 1..n |->
                            IF exact_tail(min_dim, max_dim, approximation, j, n)
                            THEN -1
                            ELSE PyIndex(approximation, idx(j))]
    IN IF ~length_ok(size, min_dim, max_dim) THEN NoChunks("AssertionError")
       ELSE IF size = 0 THEN NoChunks("IndexError")
       ELSE IF index_error THEN NoChunks("IndexError")
       ELSE [outcome |-> "ok", dim_chunks |-> dim_chunks, approx_chunks |-> approx_chunks]

(***************************************************************************)
(* Sparse matrices.  A matrix is its shape, its dtype ("num" for int or    *)
(* float weights, "bool") and its entries; an entry 0 is a position that   *)
(* is not stored.  Rows and columns count from 0.                          *)
(***************************************************************************)
Pos(r, c) == (0..(r - 1)) \X (0..(c - 1))

Stored(m) == {p \in DOMAIN m.data : m.data[p] # 0}

\* adj.T
Transpose(m) ==
    [rows |-> m.cols, cols |-> m.rows, dtype |-> m.dtype,
     data |-> [p \in Pos(m.cols, m.rows) |-> m.data[<<p[2], p[1]>>]]]

\* adj.astype('bool')
astype_bool(m) ==
    [m EXCEPT !.dtype = "bool", !.data = [p \in DOMAIN m.data |-> IF m.data[p] # 0 THEN 1 ELSE 0]]

\* adj.astype(bool).astype(int)
astype_bool_int(m) == [astype_bool(m) EXCEPT !.dtype = "num"]

\* np.count_nonzero(adj.diagonal()); diagonal() of an N x M matrix has min(N, M) entries
diagonal_nonzero(m) == \E p \in DOMAIN m.data : p[1] = p[2] /\ m.data[p] # 0

\* sp.triu(m): the entries on and above the diagonal
triu(m) == [m EXCEPT !.data = [p \in DOMAIN m.data |-> IF p[1] <= p[2] THEN m.data[p] ELSE 0]]

\* a + b of two sparse matrices of one shape: bool + bool is "or", numbers add
add(a, b) ==
    [a EXCEPT !.data = [p \in DOMAIN a.data |->
        IF a.dtype = "bool"
        THEN (IF a.data[p] # 0 \/ b.data[p] # 0 THEN 1 ELSE 0)
        ELSE a.data[p] + b.data[p]]]

\* a.multiply(b): the elementwise product
multiply(a, b) == [a EXCEPT !.data = [p \in DOMAIN a.data |-> a.data[p] * b.data[p]]]

\* (adj + adj.T).astype('bool')
underlying_undirected_matrix(adj) == astype_bool(add(adj, Transpose(adj)))

rc_submatrix_backward(adj) ==
    LET mask == astype_bool(adj)
    IN [multiply(Transpose(adj), multiply(mask, Transpose(mask))) EXCEPT !.dtype = adj.dtype]
\* adj.multiply(mask).astype(adj.dtype) with mask = bool(adj) * bool(adj).T
rc_submatrix(adj) ==
    LET mask == astype_bool(adj)
    IN [multiply(adj, multiply(mask, Transpose(mask))) EXCEPT !.dtype = adj.dtype]

\* "Symmetrize matrix if simplex_type is not 'directed'"
symmetrize(adj, simplex_type) ==
    IF simplex_type = "undirected" THEN triu(underlying_undirected_matrix(adj))
    ELSE IF simplex_type = "reciprocal" THEN triu(rc_submatrix(adj))
    ELSE adj

\* the two assertions every counting entry point starts with
matrix_check(adj) ==
    IF diagonal_nonzero(adj) THEN "AssertionError"
    ELSE IF adj.rows # adj.cols THEN "AssertionError"
    ELSE "ok"

(***************************************************************************)
(* Inputs.                                                                 *)
(***************************************************************************)
\* matrices have at most MaxN rows and MaxN columns
MaxN == 2
\* and at most MaxEntries stored entries
MaxEntries == 2
\* with weights -1, 1, .., MaxW
MaxW == 2
\* temporary file names the system can hand out
MaxTmp == 1

Weights == {-1} \cup (1..MaxW)

MatricesOf(r, c, maxEntries) ==
    UNION {{[rows |-> r, cols |-> c, dtype |-> "num",
             data |-> [p \in Pos(r, c) |-> IF p \in S THEN w[p] ELSE 0]] : w \in [S -> Weights]}
           : S \in {T \in SUBSET Pos(r, c) : Cardinality(T) <= maxEntries}}

Matrices == UNION {MatricesOf(r, c, MaxEntries) : r \in 1..MaxN, c \in 1..MaxN}

SquareZeroDiagonal(m) == m.rows = m.cols /\ ~diagonal_nonzero(m)

\* a matrix without stored entries and one with the single edge 0 -> 1
ZeroAdj == [rows |-> MaxN, cols |-> MaxN, dtype |-> "num", data |-> [p \in Pos(MaxN, MaxN) |-> 0]]
EdgeAdj == [ZeroAdj EXCEPT !.data[<<0, 1>>] = 1]

Dims == 0..MaxDim
MaxDims == Dims \cup {Inf}
ApproxValues == -1..MaxApprox
Schedules == UNION {[1..n -> ApproxValues] : n \in 0..MaxLen}

\* the approximation argument: None, one integer, or a schedule
ApproxNone == [kind |-> "None", n |-> 0, l |-> <<>>]
ApproxInt(n) == [kind |-> "int", n |-> n, l |-> <<>>]
ApproxList(l) == [kind |-> "list", n |-> 0, l |-> l]
Approximations ==
    {ApproxNone} \cup {ApproxInt(n) : n \in ApproxValues} \cup {ApproxList(l) : l \in Schedules}

SimplexTypes == {"directed", "undirected", "reciprocal"}

NoArgs == [none |-> TRUE]
NoResult == [none |-> TRUE]

Init ==
    /\ pc = "idle"
    /\ op = "none"
    /\ args = NoArgs
    /\ outcome = "none"
    /\ result = NoResult
    /\ calls = <<>>
    /\ files = {}
    /\ created = {}

(***************************************************************************)
(* persistence.  Inverting and binning rewrite adj.data; the call record   *)
(* names the matrix handed to the solver by the input and the rewrites     *)
(* applied to it.  The solver is taken to return.                          *)
(***************************************************************************)
weighted_call(adj, n, N, a) ==
    [fn |-> "flagser_weighted", adj |-> adj, min_dimension |-> n, max_dimension |-> N,
     approximation |-> a]

\* N = dims_range[-1]; if N == -1: N = np.inf
upper_of(dims_range) == IF Last(dims_range) = -1 THEN Inf ELSE Last(dims_range)

\* if a == -1: a = None
approx_of(a) == IF a = -1 THEN None ELSE Some(a)

persistence(weighted_adj, min_dim, max_dim, approximation, invert_weights, binned) ==
    LET adj == [base |-> weighted_adj, inverted |-> invert_weights, binned |-> binned]
        chunks == chunk_approx_and_dims(min_dim, max_dim, approximation.l)
    IN IF (invert_weights \/ binned) /\ Stored(weighted_adj) = {}
       THEN [outcome |-> "ValueError", calls |-> <<>>]
       ELSE IF approximation.kind = "None"
       THEN [outcome |-> "ok", calls |-> <<weighted_call(adj, min_dim, max_dim, None)>>]
       ELSE IF approximation.kind = "int"
       THEN [outcome |-> "ok",
             calls |-> <<weighted_call(adj, min_dim, max_dim, Some(approximation.n))>>]
       ELSE IF chunks.outcome # "ok"
       THEN [outcome |-> chunks.outcome, calls |-> <<>>]
       ELSE [outcome |-> "ok",
             calls |-> [j \in 1..Len(chunks.dim_chunks) |->
                          weighted_call(adj, chunks.dim_chunks[j][1],
                                        upper_of(chunks.dim_chunks[j]),
                                        approx_of(chunks.approx_chunks[j]))]]

(***************************************************************************)
(* betti_counts.  The solver is taken to return.                           *)
(***************************************************************************)
unweighted_call(adj, n, N, a) ==
    [fn |-> "flagser_unweighted", adj |-> adj, min_dimension |-> n, max_dimension |-> N,
     approximation |-> a]

\* "Make approximation vector to be of size max_dim"
fit_to_max_dim(approximation, max_dim) ==
    IF max_dim = Inf THEN approximation
    ELSE IF Len(approximation) - 1 < max_dim
    THEN approximation \o [i \in 1..(max_dim - (Len(approximation) - 1)) |-> -1]
    ELSE IF Len(approximation) - 1 > max_dim
    THEN SubSeq(approximation, 1, max_dim + 1)
    ELSE approximation

\* "Computing bettis": the solver invocations of betti_counts, in order
betti_solver_calls(adj, min_dim, max_dim, approximation) ==
    LET fitted == fit_to_max_dim(approximation.l, max_dim)
        ranges == np_split(arange(Len(fitted), 0), slice_indx(fitted), 0)
        tail == IF max_dim = Inf
                THEN <<unweighted_call(adj, Len(fitted), Inf, None)>>
                ELSE <<>>
    IN IF approximation.kind = "None"
       THEN [outcome |-> "ok", calls |-> <<unweighted_call(adj, min_dim, max_dim, None)>>]
       ELSE IF approximation.kind = "int"
       THEN [outcome |-> "TypeError", calls |-> <<>>]
       ELSE IF Len(fitted) = 0
       THEN [outcome |-> "IndexError", calls |-> <<>>]
       ELSE [outcome |-> "ok",
             calls |-> [k \in 1..Len(ranges) |->
                          unweighted_call(adj, ranges[k][1], Last(ranges[k]),
                                          approx_of(fitted[ranges[k][1] + 1]))] \o tail]

\* assert (not approximation in None) and (min_dim!=0): "x in None" raises TypeError
approximation_check(approximation, min_dim) == "TypeError"

betti_counts(adj0, min_dim, max_dim, simplex_type, approximation) ==
    LET adj == astype_bool_int(adj0)
    IN IF matrix_check(adj) # "ok"
       THEN [outcome |-> matrix_check(adj), calls |-> <<>>]
       ELSE IF approximation_check(approximation, min_dim) # "ok"
       THEN [outcome |-> approximation_check(approximation, min_dim), calls |-> <<>>]
       ELSE betti_solver_calls(symmetrize(adj, simplex_type), min_dim, max_dim, approximation)

\* np.arange(min_dim, len(bettis)-min_dim), n_bettis being len(bettis)
betti_index(min_dim, n_bettis) ==
    [i \in 1..(n_bettis - 2 * min_dim) |-> min_dim + i - 1]

\* pd.Series(bettis, name="betti_count", index=..): raises ValueError unless there
\* is one label for each value
betti_series(min_dim, n_bettis) ==
    IF Len(betti_index(min_dim, n_bettis)) # n_bettis
    THEN [outcome |-> "ValueError", index |-> <<>>]
    ELSE [outcome |-> "ok", index |-> betti_index(min_dim, n_bettis)]

\* library/topology.py: no checks, no symmetrization
library_betti_counts(adj0, min_dim, max_dim, approximation) ==
    betti_solver_calls(astype_bool_int(adj0), min_dim, max_dim, approximation)

(***************************************************************************)
(* The counting entry points.  Except in list_simplices_by_dimension, the  *)
(* solver is taken to return.                                              *)
(***************************************************************************)
count_call(adj, max_simplices, containment, return_simplices, max_dim, vertices_todo) ==
    [fn |-> "flagser_count", adj |-> adj, max_simplices |-> max_simplices,
     containment |-> containment, return_simplices |-> return_simplices,
     max_dim |-> max_dim, vertices_todo |-> vertices_todo]

\* no node restriction: vertices_todo = ''
NoFile == [name |-> 0, ext |-> ""]

\* the solver invocation of _flagser_counts
flagser_counts(adjacency, max_simplices, count_node_participation, max_dim) ==
    count_call(astype_bool_int(adjacency), max_simplices, count_node_participation,
               FALSE, max_dim, NoFile)

\* what the solver counts: the directed simplices of dimension d, that is d + 1
\* nodes ordered so that there is an edge from the i-th to the j-th whenever i < j;
\* each is a simplex of dimension d - 1 and a node that all of its nodes have an edge to
RECURSIVE directed_simplices(_, _)
directed_simplices(adj, d) ==
    IF d = 0 THEN {<<v>> : v \in 0..(adj.rows - 1)}
    ELSE {Append(sv[1], sv[2]) :
            sv \in {x \in directed_simplices(adj, d - 1) \X (0..(adj.rows - 1)) :
                       \A i \in 1..d : adj.data[<<x[1][i], x[2]>>] # 0}}

\* t without its k-th node
without(t, k) == [i \in 1..(Len(t) - 1) |-> IF i < k THEN t[i] ELSE t[i + 1]]

\* the simplices of dimension d that are contained in no simplex of dimension d + 1
maximal_simplices(adj, d) ==
    {s \in directed_simplices(adj, d) :
        \A t \in directed_simplices(adj, d + 1) : \A k \in 1..(d + 2) : without(t, k) # s}

\* the dimensions the solver reports: up to the highest one that has a simplex,
\* and no further than max_dim unless max_dim = -1
reported_dims(adj, max_dim) ==
    {d \in 0..(adj.rows - 1) :
        directed_simplices(adj, d) # {} /\ (max_dim = -1 \/ d <= max_dim)}

\* flagser_counts["simplex_counts"], flagser_counts["max_simplex_counts"]: the
\* series by dimension, the count of dimension d at place d + 1
cell_counts(adj, max_dim) ==
    [i \in 1..Cardinality(reported_dims(adj, max_dim)) |->
        Cardinality(directed_simplices(adj, i - 1))]
max_cell_counts(adj, max_dim) ==
    [i \in 1..Cardinality(reported_dims(adj, max_dim)) |->
        Cardinality(maximal_simplices(adj, i - 1))]

\* adj is the local variable adj when the solver is invoked
simplex_counts(adj, max_simplices, max_dim, simplex_type) ==
    IF matrix_check(adj) # "ok"
    THEN [outcome |-> matrix_check(adj), calls |-> <<>>, adj |-> adj, counts |-> <<>>]
    ELSE LET call == flagser_counts(symmetrize(adj, simplex_type), max_simplices,
                                    FALSE, max_dim)
         IN [outcome |-> "ok",
             calls |-> <<call>>,
             adj |-> symmetrize(adj, simplex_type),
             counts |-> IF max_simplices THEN max_cell_counts(call.adj, max_dim)
                        ELSE cell_counts(call.adj, max_dim)]

node_participation(adj0, max_simplices, max_dim, simplex_type) ==
    LET adj == astype_bool(adj0)
    IN IF matrix_check(adj) # "ok"
       THEN [outcome |-> matrix_check(adj), calls |-> <<>>]
       ELSE [outcome |-> "ok",
             calls |-> <<flagser_counts(symmetrize(adj, simplex_type), max_simplices,
                                        TRUE, max_dim)>>]

\* the nodes argument: None, or an array of node ids
NodesNone == [none |-> TRUE, ids |-> {}]
NodesOf(ids) == [none |-> FALSE, ids |-> ids]

\* np.isin(nodes, np.arange(N)).all()
nodes_check(nodes, N) == nodes.none \/ nodes.ids \subseteq 0..(N - 1)

\* tempfile.NamedTemporaryFile(delete=False) creates tmp_file.name;
\* np.save(tmp_file.name + ".npy", ..) creates the file the solver reads
tmp_file(t) == [name |-> t, ext |-> ""]
vertices_todo_file(t) == [name |-> t, ext |-> ".npy"]

\* no series: the call raised
NoSimplices == [dims |-> {}, list |-> <<>>]

\* flagser_count(.., vertices_todo=.., return_simplices=True)['simplices']: for each
\* dimension the solver reached, the simplices (the maximal ones under max_simplices)
\* whose first vertex is one of the nodes to do
solver_simplices(adj, max_simplices, max_dim, nodes) ==
    LET from(d) == {s \in directed_simplices(adj, d) : nodes.none \/ s[1] \in nodes.ids}
        dims == {d \in reported_dims(adj, max_dim) : from(d) # {}}
    IN [dims |-> dims,
        list |-> [d \in dims |->
                    IF max_simplices
                    THEN {s \in maximal_simplices(adj, d) : nodes.none \/ s[1] \in nodes.ids}
                    ELSE from(d)]]

\* if nodes is None: nodes=np.arange(0, N)
nodes_or_all(nodes, N) == IF nodes.none THEN 0..(N - 1) ELSE nodes.ids

edges_into(adj, nodes) == {p \in Stored(adj) : p[2] \in nodes}
\* coom.row[mask], coom.col[mask] with mask = np.isin(coom.row, nodes)
edges_from(adj, nodes) == {p \in Stored(adj) : p[1] \in nodes}

\* "Format output": the series by dimension; without max_simplices the entries 0
\* and 1 are written from the nodes and from the stored positions of adj
format_output(original, adj, max_simplices, nodes) ==
    IF max_simplices THEN original
    ELSE [dims |-> original.dims \cup {0, 1},
          list |-> [d \in original.dims \cup {0, 1} |->
                      IF d = 0 THEN {<<v>> : v \in nodes_or_all(nodes, adj.rows)}
                      ELSE IF d = 1 THEN edges_from(adj, nodes_or_all(nodes, adj.rows))
                      ELSE original.list[d]]]

\* list_simplices_by_dimension, with t the temporary name the system hands out and
\* solver_raises whether the solver invocation raises; disk is the set of files before
list_simplices_by_dimension(adj, max_simplices, max_dim, nodes, simplex_type, t, solver_raises, disk) ==
    LET made == IF nodes.none THEN {} ELSE {tmp_file(t), vertices_todo_file(t)}
        vertices_todo == IF nodes.none THEN NoFile ELSE vertices_todo_file(t)
        call == count_call(symmetrize(adj, simplex_type), max_simplices, FALSE, TRUE,
                           max_dim, vertices_todo)
    IN IF matrix_check(adj) # "ok"
       THEN [outcome |-> matrix_check(adj), calls |-> <<>>, created |-> {}, files |-> disk,
             simplices |-> NoSimplices]
       ELSE IF ~nodes_check(nodes, adj.rows)
       THEN [outcome |-> "AssertionError", calls |-> <<>>, created |-> {}, files |-> disk,
             simplices |-> NoSimplices]
       ELSE IF solver_raises
       THEN [outcome |-> "SolverError", calls |-> <<call>>, created |-> made,
             files |-> disk \cup made, simplices |-> NoSimplices]
       ELSE [outcome |-> "ok", calls |-> <<call>>, created |-> made,
             files |-> (disk \cup made) \ {vertices_todo},
             simplices |-> format_output(solver_simplices(call.adj, max_simplices,
                                                          max_dim, nodes),
                                         call.adj, max_simplices, nodes)]

(***************************************************************************)
(* Weighted networks.                                                      *)
(***************************************************************************)
RECURSIVE SortAscending(_)
SortAscending(S) == IF S = {} THEN <<>> ELSE <<Min(S)>> \o SortAscending(S \ {Min(S)})

NotReversed(s) == s
\* s[::-1]
Reversed(s) == [i \in 1..Len(s) |-> s[Len(s) + 1 - i]]

\* np.unique(adj.data)
unique_data(adj) == SortAscending({adj.data[p] : p \in Stored(adj)})

\* s.max()
Max(S) == CHOOSE x \in S : \A y \in S : x >= y

keeps_strict(method, weight, threshold) ==
    IF method = "strength" THEN weight > threshold ELSE weight < threshold
\* data >= threshold (strength), data <= threshold (distance)
keeps(method, weight, threshold) ==
    IF method = "strength" THEN weight >= threshold ELSE weight <= threshold

valid_method_any(method) == TRUE
\* the methods that do not reach raise ValueError("Method has to be 'strength' or 'distance'")
valid_method(method) == method \in {"strength", "distance"}

\* no matrix: the call raised
NoMatrix == [rows |-> 0, cols |-> 0, dtype |-> "none", data |-> <<>>]

\* adj_thresh is a copy that gets the new float array data_thresh, from which
\* eliminate_zeros drops every position that was not kept; weighted_adj is the
\* argument after the call: no statement writes to it or to its data array
at_weight_edges(weighted_adj, threshold, method) ==
    IF ~valid_method(method)
    THEN [outcome |-> "ValueError", adj |-> NoMatrix, weighted_adj |-> weighted_adj]
    ELSE [outcome |-> "ok",
          adj |-> [weighted_adj EXCEPT
                     !.dtype = "num",
                     !.data = [p \in DOMAIN weighted_adj.data |->
                                 IF keeps(method, weighted_adj.data[p], threshold)
                                 THEN weighted_adj.data[p] ELSE 0]],
          weighted_adj |-> weighted_adj]

\* adj is the argument after the call: it is only read
filtration_weights(adj, method) ==
    IF method = "strength"
    THEN [outcome |-> "ok", weights |-> Reversed(unique_data(adj)), adj |-> adj]
    ELSE IF method = "distance"
    THEN [outcome |-> "ok", weights |-> unique_data(adj), adj |-> adj]
    ELSE [outcome |-> "ValueError", weights |-> <<>>, adj |-> adj]

\* {w: filter_weight(w) for w in todo}: stops at the first simplex_counts that raises
RECURSIVE filter_weights(_, _, _, _)
filter_weights(adj, method, todo, done) ==
    IF todo = <<>> THEN [outcome |-> "ok", calls |-> done]
    ELSE LET counted == simplex_counts(at_weight_edges(adj, Head(todo), method).adj,
                                       FALSE, -1, "directed")
         IN IF counted.outcome # "ok"
            THEN [outcome |-> counted.outcome, calls |-> done]
            ELSE filter_weights(adj, method, Tail(todo), done \o counted.calls)

(***************************************************************************)
(* bin_weigths.  The weights of an array are whole multiples of a unit and  *)
(* the array is given as whole numbers, with tol, the number that           *)
(* weights.max() + 1e-8 adds to the maximum:                                *)
(*   "one"    the weights are multiples of 1; they are counted in           *)
(*            multiples of 1e-8, in which tol is 1;                         *)
(*   "large"  the weights are multiples of 2^30, and counted in them; in    *)
(*            float64 max + 1e-8 is max itself (1e-8 is less than half the  *)
(*            spacing of the floats from 2^27 on), so tol is 0.             *)
(* Apart from this sum the arithmetic is exact; for the large weights this  *)
(* is the arithmetic of float64 when n_bins is a power of two.  The binned  *)
(* values are returned as whole numbers, denom of them making one of the    *)
(* numbers given.                                                           *)
(***************************************************************************)
\* tol = 1e-8: a weight of 1 is TolInv times tol
TolInv == 100000000

BinUnits == {"one", "large"}

\* the weights counted in the unit, and tol counted in the unit
in_unit(weights, unit) ==
    [i \in DOMAIN weights |-> IF unit = "one" THEN TolInv * weights[i] ELSE weights[i]]
tol_in(unit) == IF unit = "large" THEN 0 ELSE 1

NoBins(e) == [outcome |-> e, weights |-> <<>>, digits |-> <<>>, denom |-> 1]

center_of_bin_from_top(min_weight, range, n_bins, digit) ==
    2 * n_bins * min_weight + range + (n_bins - digit) * 2 * range
\* (min_weight + step / 2) + (digits - 1) * step, times 2 * n_bins; range is step * n_bins
center_of_bin(min_weight, range, n_bins, digit) ==
    2 * n_bins * min_weight + range + (digit - 1) * 2 * range

\* np.digitize(w, bins): the number of the n_edges bin edges min_weight + k * step
\* (k from 0) that are <= w
digitize(w, min_weight, range, n_bins, n_edges) ==
    LET below == (n_bins * (w - min_weight)) \div range + 1
    IN IF below < n_edges THEN below ELSE n_edges

\* weights maps the places of the array to their weights
bin_weigths(weights, n_bins, tol) ==
    LET values == {weights[i] : i \in DOMAIN weights}
        min_weight == Min(values)
        max_weight == Max(values) + tol
        \* step * n_bins
        range == max_weight - min_weight
        \* len(np.arange(min_weight, max_weight + step, step))
        n_edges == n_bins + 1
        digits == [i \in DOMAIN weights |->
                     digitize(weights[i], min_weight, range, n_bins, n_edges)]
    IN \* min() of an empty array
       IF values = {} THEN NoBins("ValueError")
       \* np.arange with step 0
       ELSE IF range = 0 THEN NoBins("ValueError")
       ELSE [outcome |-> "ok",
             weights |-> [i \in DOMAIN weights |->
                            center_of_bin(min_weight, range, n_bins, digits[i])],
             digits |-> digits,
             denom |-> 2 * n_bins]

(***************************************************************************)
(* filtered_simplex_counts                                                 *)
(***************************************************************************)
visit_order_forward(weights) == weights
\* for w in weights[::-1]
visit_order(weights) == Reversed(weights)

NoFiltered(e, adj) == [outcome |-> e, calls |-> <<>>, weights |-> <<>>, adj |-> adj, denom |-> 1]

\* adj = adj.copy(); if binned==True: adj.data = bin_weigths(adj.data, n_bins=n_bins);
\* the weights of a matrix are multiples of 1; denom is the number of binned units
\* that make a weight of 1
filtered_simplex_counts(adj0, method, binned, n_bins) ==
    LET bins == bin_weigths(in_unit([p \in Stored(adj0) |-> adj0.data[p]], "one"), n_bins,
                            tol_in("one"))
        adj == IF binned
               THEN [adj0 EXCEPT !.data = [p \in DOMAIN adj0.data |->
                                             IF p \in Stored(adj0) THEN bins.weights[p] ELSE 0]]
               ELSE adj0
        weights == filtration_weights(adj, method)
        visited == filter_weights(adj, method, visit_order(weights.weights), <<>>)
    IN IF binned /\ bins.outcome # "ok" THEN NoFiltered(bins.outcome, adj0)
       ELSE IF weights.outcome # "ok" THEN NoFiltered(weights.outcome, adj)
       ELSE [outcome |-> visited.outcome,
             calls |-> visited.calls,
             weights |-> visit_order(weights.weights),
             adj |-> adj,
             denom |-> IF binned THEN bins.denom * TolInv ELSE 1]

(***************************************************************************)
(* library/topology.py: filtered_simplex_counts, which thresholds the      *)
(* matrix the step before left.  passed lists the matrices handed to        *)
(* simplex_counts.                                                          *)
(***************************************************************************)
\* library simplex_counts: no checks; flagser_count(adj, max_simplices=False, threads)
library_simplex_counts(adj) == count_call(astype_bool_int(adj), FALSE, FALSE, FALSE, -1, NoFile)

library_visit_order_forward(weights) == weights
\* for weight in tqdm(weights[::-1], ..)
library_visit_order(weights) == Reversed(weights)

\* adj=at_weight_edges(adj,threshold=weight,method=method);
\* simplex_counts_filtered[weight]=simplex_counts(adj,threads=threads)
RECURSIVE library_filter_weights(_, _, _, _, _)
library_filter_weights(adj, method, todo, passed, made) ==
    IF todo = <<>> THEN [passed |-> passed, calls |-> made]
    ELSE LET thresholded == at_weight_edges(adj, Head(todo), method).adj
         IN library_filter_weights(thresholded, method, Tail(todo),
                                   Append(passed, thresholded),
                                   Append(made, library_simplex_counts(thresholded)))

NoLibraryFiltered(e, adj) ==
    [outcome |-> e, calls |-> <<>>, passed |-> <<>>, weights |-> <<>>, adj |-> adj, denom |-> 1]

library_filtered_simplex_counts(weighted_adj, method, binned, n_bins) ==
    LET bins == bin_weigths(in_unit([p \in Stored(weighted_adj) |-> weighted_adj.data[p]],
                                    "one"), n_bins, tol_in("one"))
        adj == IF binned
               THEN [weighted_adj EXCEPT !.data = [p \in DOMAIN weighted_adj.data |->
                        IF p \in Stored(weighted_adj) THEN bins.weights[p] ELSE 0]]
               ELSE weighted_adj
        weights == filtration_weights(adj, method)
        visited == library_filter_weights(adj, method, library_visit_order(weights.weights),
                                          <<>>, <<>>)
    IN IF binned /\ bins.outcome # "ok" THEN NoLibraryFiltered(bins.outcome, weighted_adj)
       ELSE IF weights.outcome # "ok" THEN NoLibraryFiltered(weights.outcome, adj)
       ELSE [outcome |-> "ok",
             calls |-> visited.calls,
             passed |-> visited.passed,
             weights |-> library_visit_order(weights.weights),
             adj |-> adj,
             denom |-> IF binned THEN bins.denom * TolInv ELSE 1]

(***************************************************************************)
(* normalized_simplex_counts.  An entry of the returned series is a        *)
(* quotient, kept as its numerator and its denominator; np.divide by 0      *)
(* gives inf or nan (and a warning), no exception.                          *)
(***************************************************************************)
RECURSIVE factorial(_)
factorial(n) == IF n <= 0 THEN 1 ELSE n * factorial(n - 1)

NoRatios(e, made) == [outcome |-> e, calls |-> made, ratios |-> <<>>]

\* np.pad(numerator, (0, width), 'constant', constant_values=0) for width >= 0
pad(numerator, width) == numerator \o [i \in 1..width |-> 0]

\* the second simplex_counts call names its type simple_type, which **kwargs takes,
\* so it runs with the default simplex_type='directed'
normalized_simplex_counts(adj, max_simplices, max_dim) ==
    LET undirected == simplex_counts(adj, max_simplices, max_dim, "undirected")
        directed == simplex_counts(adj, max_simplices, max_dim, "directed")
        max_dim_global == Len(undirected.counts)
        \* np.multiply(denominator, max_possible_directed)
        denominator == [i \in 1..max_dim_global |-> undirected.counts[i] * factorial(i)]
        numerator == pad(directed.counts, max_dim_global - Len(directed.counts))
    IN IF undirected.outcome # "ok" THEN NoRatios(undirected.outcome, undirected.calls)
       ELSE IF directed.outcome # "ok"
       THEN NoRatios(directed.outcome, undirected.calls \o directed.calls)
       \* np.pad with a negative width
       ELSE IF max_dim_global - Len(directed.counts) < 0
       THEN NoRatios("ValueError", undirected.calls \o directed.calls)
       ELSE [outcome |-> "ok",
             calls |-> undirected.calls \o directed.calls,
             \* np.divide(numerator, denominator)[1:], index np.arange(1, max_dim_global)
             ratios |-> [d \in 1..(max_dim_global - 1) |->
                           [num |-> numerator[d + 1], den |-> denominator[d + 1]]]]

(***************************************************************************)
(* Degrees.  A table (a DataFrame, or a Series as a table of one column)   *)
(* is its set of column labels and, for each label, the value at each node. *)
(***************************************************************************)
RECURSIVE SumOver(_, _)
SumOver(f, S) ==
    IF S = {} THEN 0
    ELSE LET x == CHOOSE y \in S : TRUE IN f[x] + SumOver(f, S \ {x})

NodesIn(m) == 0..(m.rows - 1)

\* matrix.sum(axis=0) and matrix.sum(axis=1): column sums and row sums, over every
\* position, the diagonal included
sum_axis0(matrix) ==
    [v \in NodesIn(matrix) |-> SumOver([u \in NodesIn(matrix) |-> matrix.data[<<u, v>>]],
                                       NodesIn(matrix))]
sum_axis1(matrix) ==
    [v \in NodesIn(matrix) |-> SumOver([u \in NodesIn(matrix) |-> matrix.data[<<v, u>>]],
                                       NodesIn(matrix))]

NoTable == [columns |-> {}, value |-> <<>>]

\* the direction argument: None, "IN", "OUT", the tuples ("IN", "OUT") and
\* ("OUT", "IN"), or any other string
Directions == {"None", "IN", "OUT", "IN,OUT", "OUT,IN", "other"}

\* assert not direction or direction in ("IN", "OUT") or tuple(direction) == ("IN", "OUT")
degree_direction_ok(direction) == direction \in {"None", "IN", "OUT", "IN,OUT"}

\* warned: logging.warning('The diagonal is non-zero! ...') was emitted
node_degree(adj, direction, weighted) ==
    LET matrix == IF weighted THEN adj ELSE astype_bool(adj)
        in_degree == sum_axis0(matrix)
        out_degree == sum_axis1(matrix)
        total == [v \in NodesIn(matrix) |-> in_degree[v] + out_degree[v]]
    IN IF ~degree_direction_ok(direction)
       THEN [outcome |-> "AssertionError", warned |-> FALSE, table |-> NoTable]
       ELSE [outcome |-> "ok",
             warned |-> diagonal_nonzero(matrix),
             table |->
               IF direction = "None"
               THEN [columns |-> {"total"}, value |-> [c \in {"total"} |-> total]]
               ELSE IF direction = "IN,OUT"
               THEN [columns |-> {"IN", "OUT"},
                     value |-> [c \in {"IN", "OUT"} |->
                                  IF c = "IN" THEN in_degree ELSE out_degree]]
               ELSE IF direction = "IN"
               THEN [columns |-> {"IN"}, value |-> [c \in {"IN"} |-> in_degree]]
               ELSE [columns |-> {"OUT"}, value |-> [c \in {"OUT"} |-> out_degree]]]

\* the matrix the solver builds its flag complex from: "Non-zero entries in the
\* diagonal will be ignored."
ignore_diagonal(m) ==
    [m EXCEPT !.data = [p \in DOMAIN m.data |-> IF p[1] = p[2] THEN 0 ELSE m.data[p]]]

\* assert (max_dim > 1) or (max_dim==-1)
k_max_dim_ok(max_dim) == max_dim > 1 \/ max_dim = -1

\* assert direction in ("IN", "OUT") or tuple(direction) == ("IN", "OUT")
k_direction_ok(direction) == direction \in {"IN", "OUT", "IN,OUT"}

\* max_dim after the solver returned: max_dim_possible = len(cell_counts) - 1
effective_max_dim(max_dim, n_counts) ==
    IF max_dim = -1 THEN n_counts - 1
    ELSE IF max_dim > n_counts - 1 THEN n_counts - 1
    ELSE max_dim

nothing_to_tabulate_below(max_dim) == max_dim <= 2 /\ max_dim # -1
\* if (max_dim <= 1) and (max_dim!=-1): print("There are no simplices of dimension 2 or higher")
nothing_to_tabulate(max_dim) == max_dim <= 1 /\ max_dim # -1

\* "OUT" in direction, "IN" in direction
out_in(direction) == direction \in {"OUT", "IN,OUT"}
in_in(direction) == direction \in {"IN", "IN,OUT"}

count_by_first(simplices, dim, v) == Cardinality({s \in simplices : s[1] = v})
\* np.unique(simplices[dim][:, dim], return_counts=True) aligned to the node index,
\* fillna(0): the number of listed simplices whose last vertex is v
count_by_last(simplices, dim, v) == Cardinality({s \in simplices : s[dim + 1] = v})
\* the same for simplices[dim][:, 0]
count_by_head(simplices, dim, v) == Cardinality({s \in simplices : s[1] = v})

\* the columns f'{dim}_out_degree', f'{dim}_in_degree' are the pairs <<dim, "out">>,
\* <<dim, "in">>; printed: the message was printed and None returned
node_k_degree(adj, direction, max_dim0) ==
    LET matrix == adj
        call == count_call(matrix, FALSE, FALSE, TRUE, max_dim0, NoFile)
        complex == ignore_diagonal(matrix)
        max_dim == effective_max_dim(max_dim0, Len(cell_counts(complex, max_dim0)))
        columns == {c \in (2..max_dim) \X {"out", "in"} :
                      IF c[2] = "out" THEN out_in(direction) ELSE in_in(direction)}
    IN IF ~k_max_dim_ok(max_dim0) \/ ~k_direction_ok(direction)
       THEN [outcome |-> "AssertionError", warned |-> FALSE, calls |-> <<>>,
             printed |-> FALSE, max_dim |-> max_dim0, table |-> NoTable]
       ELSE IF nothing_to_tabulate(max_dim)
       THEN [outcome |-> "ok", warned |-> diagonal_nonzero(matrix), calls |-> <<call>>,
             printed |-> TRUE, max_dim |-> max_dim, table |-> NoTable]
       ELSE [outcome |-> "ok", warned |-> diagonal_nonzero(matrix), calls |-> <<call>>,
             printed |-> FALSE, max_dim |-> max_dim,
             table |->
               [columns |-> columns,
                value |-> [c \in columns |-> [v \in NodesIn(matrix) |->
                             IF c[2] = "out"
                             THEN count_by_head(directed_simplices(complex, c[1]), c[1], v)
                             ELSE count_by_last(directed_simplices(complex, c[1]), c[1], v)]]]]

(***************************************************************************)
(* cross_col_k_in_degree                                                   *)
(***************************************************************************)
\* sp.bmat([[adj_source, adj_cross], [0, 0]]): the source nodes first, then the
\* target nodes
bmat(adj_source, adj_cross) ==
    LET n_source == adj_source.rows
        n == n_source + adj_cross.cols
    IN [rows |-> n, cols |-> n, dtype |-> "bool",
        data |-> [p \in Pos(n, n) |->
                    IF p[1] >= n_source THEN 0
                    ELSE IF p[2] < n_source THEN adj_source.data[p]
                    ELSE adj_cross.data[<<p[1], p[2] - n_source>>]]]

\* the three assertions on the source and cross matrices
cross_check(adj_source, adj_cross) ==
    IF diagonal_nonzero(adj_source) THEN "AssertionError"
    ELSE IF adj_source.rows # adj_source.cols THEN "AssertionError"
    ELSE IF adj_source.rows # adj_cross.rows THEN "AssertionError"
    ELSE "ok"

\* slist.index[1:]
index_from_1(dims) == dims \ {Min(dims)}

\* cross_col_deg[dim].loc[index]=deg assigns through the column cross_col_deg[dim];
\* whether the table receives the value depends on the pandas in use (with
\* copy-on-write the column is a copy), which writes_through stands for.
\* np.array([])[:, 0] of a dimension whose list is empty raises IndexError.
cross_col_k_in_degree(adj_cross0, adj_source0, max_simplices, max_dim, t, writes_through, disk) ==
    LET adj_source == astype_bool(adj_source0)
        adj_cross == astype_bool(adj_cross0)
        n_source == adj_source.rows
        n_target == adj_cross.cols
        adj == Transpose(bmat(adj_source, adj_cross))
        nodes == n_source..(n_source + n_target - 1)
        slist == list_simplices_by_dimension(adj, max_simplices, max_dim, NodesOf(nodes),
                                             "directed", t, FALSE, disk)
        columns == index_from_1(slist.simplices.dims)
    IN IF cross_check(adj_source, adj_cross) # "ok"
       THEN [outcome |-> cross_check(adj_source, adj_cross), calls |-> <<>>,
             created |-> {}, files |-> disk, table |-> NoTable]
       ELSE IF slist.outcome # "ok"
       THEN [outcome |-> slist.outcome, calls |-> slist.calls, created |-> slist.created,
             files |-> slist.files, table |-> NoTable]
       ELSE IF max_simplices /\ \E dim \in columns : slist.simplices.list[dim] = {}
       THEN [outcome |-> "IndexError", calls |-> slist.calls, created |-> slist.created,
             files |-> slist.files, table |-> NoTable]
       ELSE [outcome |-> "ok", calls |-> slist.calls, created |-> slist.created,
             files |-> slist.files,
             table |-> [columns |-> columns,
                        value |-> [dim \in columns |-> [v \in nodes |->
                                     IF writes_through
                                     THEN count_by_head(slist.simplices.list[dim], dim, v)
                                     ELSE 0]]]]

(***************************************************************************)
(* bedge_counts.  The entry of a dimension is nan (dimension 0), a matrix  *)
(* over the positions 0..k of a k-simplex, or, when the dimension lists no  *)
(* simplex, what summing an empty frame gives: a vector of k + 1 zeros.     *)
(***************************************************************************)
NoCounts == [dims |-> {}, value |-> <<>>]

subset_adj_row_to_column(dense, simplex, p, q) == dense.data[<<simplex[p + 1], simplex[q + 1]>>]
\* dense[simplex].T[simplex] at row p, column q: the entry of the adjacency matrix
\* from the q-th to the p-th vertex of the simplex
subset_adj(dense, simplex, p, q) == dense.data[<<simplex[q + 1], simplex[p + 1]>>]

\* count_bedges of the list of one dimension (dim + 1 columns)
count_bedges(dense, d_simplices, dim) ==
    IF dim = 0 THEN [kind |-> "nan", value |-> <<>>]
    ELSE IF d_simplices = {}
    THEN [kind |-> "vector", value |-> [p \in 0..dim |-> 0]]
    ELSE [kind |-> "matrix",
          value |-> [pq \in Pos(dim + 1, dim + 1) |->
                       SumOver([simplex \in d_simplices |->
                                   subset_adj(dense, simplex, pq[1], pq[2])],
                               d_simplices)]]

\* bedge_counts(adjacency): simplices is None, so the lists are those of
\* list_simplices_by_dimension(adj)
bedge_counts(adjacency, disk) ==
    LET simplices == list_simplices_by_dimension(adjacency, FALSE, -1, NodesNone,
                                                 "directed", 1, FALSE, disk)
    IN IF simplices.outcome # "ok"
       THEN [outcome |-> simplices.outcome, calls |-> simplices.calls, counts |-> NoCounts,
             simplices |-> NoSimplices]
       ELSE [outcome |-> "ok", calls |-> simplices.calls,
             counts |-> [dims |-> simplices.simplices.dims,
                         value |-> [dim \in simplices.simplices.dims |->
                                      count_bedges(adjacency, simplices.simplices.list[dim],
                                                   dim)]],
             simplices |-> simplices.simplices]

(***************************************************************************)
(* _binary2simplex.  A file is a sequence of unsigned words: from the low   *)
(* end three slots of SlotBits bits each, then the top bit.  The source has *)
(* slots of 21 bits in words of 64; the width of a slot only sets the range *)
(* of the vertex ids, and the model computes with narrower slots.           *)
(***************************************************************************)
SlotBits == 2

RECURSIVE TwoTo(_)
TwoTo(n) == IF n = 0 THEN 1 ELSE 2 * TwoTo(n - 1)

\* end = np.uint64(2 ** 21 - 1)
end == TwoTo(SlotBits) - 1

\* (integer & mask64) >> np.uint64(63)
top_bit(integer) == (integer \div TwoTo(3 * SlotBits)) % 2

\* start = not((integer & mask64) >> np.uint64(63))
start_of(integer) == ~(top_bit(integer) # 0)

\* v0 = integer & mask21, v1 = (integer & mask42) >> 21, v2 = (integer & mask63) >> 42
slot(integer, k) == (integer \div TwoTo(k * SlotBits)) % TwoTo(SlotBits)

\* vertices = [v for v in [v0, v1, v2] if v != end]
decode_vertices(integer) ==
    SelectSeq(<<slot(integer, 0), slot(integer, 1), slot(integer, 2)>>, LAMBDA v : v # end)

\* np.cumsum(vertices.start)
cumsum_start(simplex_info) ==
    [i \in 1..Len(simplex_info) |->
        Cardinality({j \in 1..i : start_of(simplex_info[j])})]

\* np.hstack of the vertices of the words in rows, in row order
RECURSIVE hstack(_, _)
hstack(simplex_info, rows) ==
    IF rows = {} THEN <<>>
    ELSE decode_vertices(simplex_info[Min(rows)]) \o hstack(simplex_info, rows \ {Min(rows)})

\* simplex_info.iloc[0:test]
iloc_to(simplex_info, test) ==
    IF test.none \/ test.n = 0 THEN simplex_info
    ELSE SubSeq(simplex_info, 1, IF test.n < Len(simplex_info) THEN test.n
                                  ELSE Len(simplex_info))

\* simplices: the series of vertex lists by sid.  apply on an empty series gives a
\* series, which has no assign
binary2simplex(file, test) ==
    LET simplex_info == iloc_to(file, test)
        sid == cumsum_start(simplex_info)
        sids == {sid[i] : i \in 1..Len(simplex_info)}
    IN IF Len(simplex_info) = 0
       THEN [outcome |-> "AttributeError", sid |-> <<>>, simplices |-> <<>>]
       ELSE [outcome |-> "ok",
             sid |-> sid,
             simplices |-> [g \in sids |->
                              hstack(simplex_info,
                                     {i \in 1..Len(simplex_info) : sid[i] = g})]]

(***************************************************************************)
(* Actions: one per function, the whole call.                              *)
(***************************************************************************)
Call_chunk_approx_and_dims ==
    /\ pc = "idle"
    /\ \E min_dim \in Dims, max_dim \in MaxDims, approximation \in Schedules :
         LET r == chunk_approx_and_dims(min_dim, max_dim, approximation)
         IN /\ op' = "chunk_approx_and_dims"
            /\ args' = [min_dim |-> min_dim, max_dim |-> max_dim,
                        approximation |-> approximation]
            /\ outcome' = r.outcome
            /\ result' = [dim_chunks |-> r.dim_chunks, approx_chunks |-> r.approx_chunks]
    /\ pc' = "done"
    /\ calls' = <<>>
    /\ UNCHANGED <<files, created>>

Call_persistence ==
    /\ pc = "idle"
    /\ \E weighted_adj \in {ZeroAdj, EdgeAdj}, min_dim \in Dims, max_dim \in MaxDims,
          approximation \in Approximations, invert_weights \in BOOLEAN, binned \in BOOLEAN :
         LET r == persistence(weighted_adj, min_dim, max_dim, approximation,
                              invert_weights, binned)
         IN /\ op' = "persistence"
            /\ args' = [adj |-> weighted_adj, min_dim |-> min_dim, max_dim |-> max_dim,
                        approximation |-> approximation,
                        invert_weights |-> invert_weights, binned |-> binned]
            /\ outcome' = r.outcome
            /\ calls' = r.calls
    /\ pc' = "done"
    /\ result' = NoResult
    /\ UNCHANGED <<files, created>>

\* every small matrix with a few argument combinations, and two matrices with all of them
BettiInputs ==
    (Matrices \X {0, 1} \X {1, Inf} \X SimplexTypes
        \X {ApproxNone, ApproxList(<<1, -1>>)})
    \cup ({ZeroAdj, EdgeAdj} \X Dims \X MaxDims \X {"directed"} \X Approximations)

\* n_bettis: how many Betti numbers the solver invocations returned together
Call_betti_counts ==
    /\ pc = "idle"
    /\ \E in \in BettiInputs, n_bettis \in 0..(MaxDim + 1) :
         LET r == betti_counts(in[1], in[2], in[3], in[4], in[5])
             series == betti_series(in[2], n_bettis)
         IN /\ op' = "betti_counts"
            /\ args' = [adj |-> in[1], min_dim |-> in[2], max_dim |-> in[3],
                        simplex_type |-> in[4], approximation |-> in[5]]
            /\ outcome' = IF r.outcome = "ok" THEN series.outcome ELSE r.outcome
            /\ calls' = r.calls
            /\ result' = IF r.outcome = "ok"
                          THEN [index |-> series.index, n_bettis |-> n_bettis]
                          ELSE NoResult
    /\ pc' = "done"
    /\ UNCHANGED <<files, created>>

Call_library_betti_counts ==
    /\ pc = "idle"
    /\ \E adj \in {ZeroAdj, EdgeAdj}, min_dim \in Dims, max_dim \in MaxDims,
          approximation \in Approximations :
         LET r == library_betti_counts(adj, min_dim, max_dim, approximation)
         IN /\ op' = "library_betti_counts"
            /\ args' = [adj |-> adj, min_dim |-> min_dim, max_dim |-> max_dim,
                        approximation |-> approximation]
            /\ outcome' = r.outcome
            /\ calls' = r.calls
    /\ pc' = "done"
    /\ result' = NoResult
    /\ UNCHANGED <<files, created>>

CountMaxDims == {-1, 2}
Methods == {"strength", "distance", "other"}
NodeArgs == {NodesNone} \cup {NodesOf(ids) : ids \in SUBSET (0..MaxN)}

Call_simplex_counts ==
    /\ pc = "idle"
    /\ \E adj \in Matrices, max_simplices \in BOOLEAN, max_dim \in CountMaxDims,
          simplex_type \in SimplexTypes :
         LET r == simplex_counts(adj, max_simplices, max_dim, simplex_type)
         IN /\ op' = "simplex_counts"
            /\ args' = [adj |-> adj, max_simplices |-> max_simplices, max_dim |-> max_dim,
                        simplex_type |-> simplex_type]
            /\ outcome' = r.outcome
            /\ calls' = r.calls
            /\ result' = [counts |-> r.counts, adj |-> r.adj]
    /\ pc' = "done"
    /\ UNCHANGED <<files, created>>

Call_node_participation ==
    /\ pc = "idle"
    /\ \E adj \in Matrices, max_simplices \in BOOLEAN, max_dim \in CountMaxDims,
          simplex_type \in SimplexTypes :
         LET r == node_participation(adj, max_simplices, max_dim, simplex_type)
         IN /\ op' = "node_participation"
            /\ args' = [adj |-> adj, max_simplices |-> max_simplices, max_dim |-> max_dim,
                        simplex_type |-> simplex_type]
            /\ outcome' = r.outcome
            /\ calls' = r.calls
    /\ pc' = "done"
    /\ result' = NoResult
    /\ UNCHANGED <<files, created>>

\* a call with a node subset needs a temporary name that is free on disk
Call_list_simplices_by_dimension ==
    /\ pc = "idle"
    /\ \E adj \in Matrices, max_simplices \in BOOLEAN, nodes \in NodeArgs,
          simplex_type \in SimplexTypes, t \in 1..MaxTmp, solver_raises \in BOOLEAN :
         /\ nodes.none \/ tmp_file(t) \notin files
         /\ LET r == list_simplices_by_dimension(adj, max_simplices, -1, nodes,
                                                 simplex_type, t, solver_raises, files)
            IN /\ op' = "list_simplices_by_dimension"
               /\ args' = [adj |-> adj, max_simplices |-> max_simplices, max_dim |-> -1,
                           nodes |-> nodes, simplex_type |-> simplex_type]
               /\ outcome' = r.outcome
               /\ calls' = r.calls
               /\ created' = r.created
               /\ files' = r.files
               /\ result' = [simplices |-> r.simplices]
    /\ pc' = "done"

\* n_bins ranges over 1..MaxBins
MaxBins == 2

Call_filtered_simplex_counts ==
    /\ pc = "idle"
    /\ \E adj \in Matrices, method \in Methods, binned \in BOOLEAN, n_bins \in 1..MaxBins :
         LET r == filtered_simplex_counts(adj, method, binned, n_bins)
         IN /\ ~binned => n_bins = 1
            /\ op' = "filtered_simplex_counts"
            /\ args' = [adj |-> adj, method |-> method, binned |-> binned, n_bins |-> n_bins]
            /\ outcome' = r.outcome
            /\ calls' = r.calls
            /\ result' = [weights |-> r.weights, adj |-> r.adj, denom |-> r.denom]
    /\ pc' = "done"
    /\ UNCHANGED <<files, created>>

Thresholds == (-2)..(MaxW + 1)

Call_at_weight_edges ==
    /\ pc = "idle"
    /\ \E weighted_adj \in Matrices, threshold \in Thresholds, method \in Methods :
         LET r == at_weight_edges(weighted_adj, threshold, method)
         IN /\ op' = "at_weight_edges"
            /\ args' = [adj |-> weighted_adj, threshold |-> threshold, method |-> method]
            /\ outcome' = r.outcome
            /\ result' = [adj |-> r.adj, weighted_adj |-> r.weighted_adj]
    /\ pc' = "done"
    /\ calls' = <<>>
    /\ UNCHANGED <<files, created>>

Call_filtration_weights ==
    /\ pc = "idle"
    /\ \E adj \in Matrices, method \in Methods :
         LET r == filtration_weights(adj, method)
         IN /\ op' = "filtration_weights"
            /\ args' = [adj |-> adj, method |-> method]
            /\ outcome' = r.outcome
            /\ result' = [weights |-> r.weights, adj |-> r.adj]
    /\ pc' = "done"
    /\ calls' = <<>>
    /\ UNCHANGED <<files, created>>

PowerOfTwo(n) == n \in {1, 2, 4, 8}

\* weight arrays of at most MaxLen entries
WeightArrays == UNION {[1..n -> Weights] : n \in 0..MaxLen}

Call_bin_weigths ==
    /\ pc = "idle"
    /\ \E weights \in WeightArrays, n_bins \in 1..MaxBins, unit \in BinUnits :
         LET r == bin_weigths(in_unit(weights, unit), n_bins, tol_in(unit))
         IN /\ unit = "large" => PowerOfTwo(n_bins)
            /\ op' = "bin_weigths"
            /\ args' = [weights |-> weights, n_bins |-> n_bins, unit |-> unit]
            /\ outcome' = r.outcome
            /\ result' = [weights |-> r.weights, digits |-> r.digits, denom |-> r.denom]
    /\ pc' = "done"
    /\ calls' = <<>>
    /\ UNCHANGED <<files, created>>

\* rc_submatrix on the square matrices; adj is the argument after the call, which
\* is only read (the mask is made from a copy)
Call_rc_submatrix ==
    /\ pc = "idle"
    /\ \E adj \in {m \in Matrices : m.rows = m.cols} :
         /\ op' = "rc_submatrix"
         /\ args' = [adj |-> adj]
         /\ result' = [rc |-> rc_submatrix(adj), adj |-> adj]
    /\ outcome' = "ok"
    /\ pc' = "done"
    /\ calls' = <<>>
    /\ UNCHANGED <<files, created>>

\* graphs for the degrees and the simplex lists: MaxNodes nodes and at most
\* MaxEdges entries, all of them 1, anywhere in the matrix (the diagonal included)
MaxNodes == 3
MaxEdges == 4

ZeroOneMatricesOf(r, c, maxEdges) ==
    {[rows |-> r, cols |-> c, dtype |-> "num",
      data |-> [p \in Pos(r, c) |-> IF p \in S THEN 1 ELSE 0]]
     : S \in {T \in SUBSET Pos(r, c) : Cardinality(T) <= maxEdges}}

GraphsOf(n, maxEdges) == ZeroOneMatricesOf(n, n, maxEdges)

Graphs == GraphsOf(MaxNodes, MaxEdges)

\* node_degree on the graphs with at most MaxEntries entries
Call_node_degree ==
    /\ pc = "idle"
    /\ \E adj \in GraphsOf(MaxNodes, MaxEntries), direction \in Directions, weighted \in BOOLEAN :
         LET r == node_degree(adj, direction, weighted)
         IN /\ op' = "node_degree"
            /\ args' = [adj |-> adj, direction |-> direction, weighted |-> weighted]
            /\ outcome' = r.outcome
            /\ result' = [table |-> r.table, warned |-> r.warned]
    /\ pc' = "done"
    /\ calls' = <<>>
    /\ UNCHANGED <<files, created>>

KMaxDims == {-1, 1, 2}
KDirections == {"IN", "OUT", "IN,OUT", "other"}

Call_node_k_degree ==
    /\ pc = "idle"
    /\ \E adj \in Graphs, direction \in KDirections, max_dim \in KMaxDims :
         LET r == node_k_degree(adj, direction, max_dim)
         IN /\ op' = "node_k_degree"
            /\ args' = [adj |-> adj, direction |-> direction, max_dim |-> max_dim]
            /\ outcome' = r.outcome
            /\ calls' = r.calls
            /\ result' = [table |-> r.table, warned |-> r.warned, printed |-> r.printed,
                          max_dim |-> r.max_dim]
    /\ pc' = "done"
    /\ UNCHANGED <<files, created>>

\* the temporary name the system hands out: the names are interchangeable, and the
\* first free one is taken
FreeNames == {t \in 1..MaxTmp : tmp_file(t) \notin files}

\* list_simplices_by_dimension on the graphs with at most MaxEntries edges and a zero
\* diagonal and every node subset of theirs, the solver returning
ListGraphs == {g \in GraphsOf(MaxNodes, MaxEntries) : ~diagonal_nonzero(g)}
GraphNodeArgs == {NodesNone} \cup {NodesOf(ids) : ids \in SUBSET (0..(MaxNodes - 1))}

Call_list_simplices_of_graph ==
    /\ pc = "idle"
    /\ \E adj \in ListGraphs, max_simplices \in BOOLEAN,
          nodes \in GraphNodeArgs, simplex_type \in SimplexTypes,
          t \in IF FreeNames = {} THEN {1} ELSE {Min(FreeNames)} :
         /\ nodes.none \/ tmp_file(t) \notin files
         /\ LET r == list_simplices_by_dimension(adj, max_simplices, -1, nodes,
                                                 simplex_type, t, FALSE, files)
            IN /\ op' = "list_simplices_by_dimension"
               /\ args' = [adj |-> adj, max_simplices |-> max_simplices, max_dim |-> -1,
                           nodes |-> nodes, simplex_type |-> simplex_type]
               /\ outcome' = r.outcome
               /\ calls' = r.calls
               /\ created' = r.created
               /\ files' = r.files
               /\ result' = [simplices |-> r.simplices]
    /\ pc' = "done"

\* a source network and a cross matrix whose nodes together are at most MaxNodes
Call_cross_col_k_in_degree ==
    /\ pc = "idle"
    /\ FreeNames # {}
    /\ \E n_source \in 1..(MaxNodes - 1), rows \in 1..(MaxNodes - 1),
          n_target \in 1..(MaxNodes - 1), max_simplices \in BOOLEAN,
          t \in {Min(FreeNames)}, writes_through \in BOOLEAN :
         /\ n_source + n_target <= MaxNodes
         /\ rows + n_target <= MaxNodes
         /\ \E adj_source \in GraphsOf(n_source, MaxEntries),
               adj_cross \in ZeroOneMatricesOf(rows, n_target, MaxEntries) :
              LET r == cross_col_k_in_degree(adj_cross, adj_source, max_simplices, -1, t,
                                             writes_through, files)
              IN /\ op' = "cross_col_k_in_degree"
                 /\ args' = [adj_cross |-> adj_cross, adj_source |-> adj_source,
                             max_simplices |-> max_simplices, max_dim |-> -1,
                             writes_through |-> writes_through]
                 /\ outcome' = r.outcome
                 /\ calls' = r.calls
                 /\ created' = r.created
                 /\ files' = r.files
                 /\ result' = [table |-> r.table]
    /\ pc' = "done"

Call_bedge_counts ==
    /\ pc = "idle"
    /\ \E adjacency \in Graphs :
         LET r == bedge_counts(adjacency, files)
         IN /\ op' = "bedge_counts"
            /\ args' = [adj |-> adjacency]
            /\ outcome' = r.outcome
            /\ calls' = r.calls
            /\ result' = [counts |-> r.counts, simplices |-> r.simplices]
    /\ pc' = "done"
    /\ UNCHANGED <<files, created>>

\* normalized_simplex_counts on the weighted matrices and on the graphs
Call_normalized_simplex_counts ==
    /\ pc = "idle"
    /\ \E adj \in Matrices \cup Graphs, max_simplices \in BOOLEAN :
         LET r == normalized_simplex_counts(adj, max_simplices, -1)
         IN /\ op' = "normalized_simplex_counts"
            /\ args' = [adj |-> adj, max_simplices |-> max_simplices, max_dim |-> -1]
            /\ outcome' = r.outcome
            /\ calls' = r.calls
            /\ result' = [ratios |-> r.ratios]
    /\ pc' = "done"
    /\ UNCHANGED <<files, created>>

Call_library_filtered_simplex_counts ==
    /\ pc = "idle"
    /\ \E adj \in Matrices, method \in Methods, binned \in BOOLEAN, n_bins \in 1..MaxBins :
         LET r == library_filtered_simplex_counts(adj, method, binned, n_bins)
         IN /\ ~binned => n_bins = 1
            /\ op' = "library_filtered_simplex_counts"
            /\ args' = [adj |-> adj, method |-> method, binned |-> binned, n_bins |-> n_bins]
            /\ outcome' = r.outcome
            /\ calls' = r.calls
            /\ result' = [weights |-> r.weights, adj |-> r.adj, passed |-> r.passed,
                          denom |-> r.denom]
    /\ pc' = "done"
    /\ UNCHANGED <<files, created>>

\* files of at most MaxWords words
MaxWords == 2

Words == 0..(TwoTo(3 * SlotBits + 1) - 1)
BinaryFiles == UNION {[1..n -> Words] : n \in 0..MaxWords}

Call_binary2simplex ==
    /\ pc = "idle"
    /\ \E file \in BinaryFiles, test \in {None, Some(1)} :
         LET r == binary2simplex(file, test)
         IN /\ op' = "_binary2simplex"
            /\ args' = [file |-> file, test |-> test]
            /\ outcome' = r.outcome
            /\ result' = [sid |-> r.sid, simplices |-> r.simplices]
    /\ pc' = "done"
    /\ calls' = <<>>
    /\ UNCHANGED <<files, created>>

\* the caller takes the result (or the exception); the next call can start
Return ==
    /\ pc = "done"
    /\ pc' = "idle"
    /\ op' = "none"
    /\ args' = NoArgs
    /\ outcome' = "none"
    /\ result' = NoResult
    /\ calls' = <<>>
    /\ created' = {}
    /\ UNCHANGED files

NextChunk ==
    \/ Call_chunk_approx_and_dims
    \/ Call_persistence
    \/ Call_betti_counts
    \/ Call_library_betti_counts
    \/ Return

SpecChunk == Init /\ [][NextChunk]_vars

\* the weighted networks
NextWeighted ==
    \/ Call_at_weight_edges
    \/ Call_filtration_weights
    \/ Call_bin_weigths
    \/ Call_filtered_simplex_counts
    \/ Call_library_filtered_simplex_counts
    \/ Return

SpecWeighted == Init /\ [][NextWeighted]_vars

\* the matrix normalizer and the counts made from its matrices
NextCount ==
    \/ Call_rc_submatrix
    \/ Call_simplex_counts
    \/ Call_normalized_simplex_counts
    \/ Return

SpecCount == Init /\ [][NextCount]_vars

\* the degrees
NextDegree ==
    \/ Call_node_degree
    \/ Call_node_k_degree
    \/ Return

SpecDegree == Init /\ [][NextDegree]_vars

\* the simplex lists and the table made from them
NextList ==
    \/ Call_list_simplices_of_graph
    \/ Call_cross_col_k_in_degree
    \/ Call_bedge_counts
    \/ Return

SpecList == Init /\ [][NextList]_vars

\* the reader of the solver's binary simplex files
NextBinary ==
    \/ Call_binary2simplex
    \/ Return

SpecBinary == Init /\ [][NextBinary]_vars

Next ==
    \/ Call_chunk_approx_and_dims
    \/ Call_persistence
    \/ Call_betti_counts
    \/ Call_library_betti_counts
    \/ Call_simplex_counts
    \/ Call_node_participation
    \/ Call_list_simplices_by_dimension
    \/ Call_filtered_simplex_counts
    \/ Call_at_weight_edges
    \/ Call_filtration_weights
    \/ Call_bin_weigths
    \/ Call_rc_submatrix
    \/ Call_node_degree
    \/ Call_node_k_degree
    \/ Call_list_simplices_of_graph
    \/ Call_cross_col_k_in_degree
    \/ Call_bedge_counts
    \/ Call_normalized_simplex_counts
    \/ Call_library_filtered_simplex_counts
    \/ Call_binary2simplex
    \/ Return

Spec == Init /\ [][Next]_vars

(***************************************************************************)
(* Properties.                                                             *)
(***************************************************************************)
ChunkDone == pc = "done" /\ op = "chunk_approx_and_dims"
ChunkAccepted == ChunkDone /\ outcome = "ok"

\* the maximal runs of equal entries of a schedule, as dimensions from min_dim
RunsOf(min_dim, approximation) ==
    np_split(arange(Len(approximation), min_dim), slice_indx(approximation), 0)

\* C1: the chunks of every accepted call, read as ranges [first element, last
\* element] (the marker -1 as last element read as unbounded), partition
\* [min_dim, max_dim]: the first starts at min_dim, each later one starts at the
\* end of the one before + 1, the last one ends at max_dim.
C1_ChunksPartitionRange ==
    ChunkAccepted =>
        LET dc == result.dim_chunks
        IN /\ Len(dc) >= 1
           /\ dc[1][1] = args.min_dim
           /\ \A k \in 2..Len(dc) : dc[k][1] = upper_of(dc[k - 1]) + 1
           /\ upper_of(dc[Len(dc)]) = args.max_dim

\* C2: in every accepted call the k-th chunk carries the schedule entry of every
\* dimension of the k-th run of the schedule, and adjacent chunks carry
\* different approximation values.
C2_ChunkValuesFollowSchedule ==
    ChunkAccepted =>
        LET ac == result.approx_chunks
            runs == RunsOf(args.min_dim, args.approximation)
        IN /\ Len(ac) >= Len(runs)
           /\ \A k \in 1..Len(runs) : \A i \in 1..Len(runs[k]) :
                 ac[k] = args.approximation[runs[k][i] - args.min_dim + 1]
           /\ \A k \in 1..(Len(ac) - 1) : ac[k] # ac[k + 1]

BettiDone == pc = "done" /\ op = "betti_counts"
BettiValidMatrix == BettiDone /\ SquareZeroDiagonal(args.adj)

\* C3: betti_counts with a schedule (on a valid matrix) invokes the solver once
\* per run of equal values, in increasing dimension order: the first range
\* starts at 0, each later one at the end of the one before + 1, the last one
\* ends at max_dim (unbounded when max_dim is not given), and consecutive
\* invocations differ in their approximation.
C3_BettiInvocationsCoverOnce ==
    (BettiValidMatrix /\ args.approximation.kind = "list") =>
        /\ Len(calls) >= 1
        /\ calls[1].min_dimension = 0
        /\ \A k \in 1..Len(calls) : calls[k].min_dimension <= calls[k].max_dimension
        /\ \A k \in 2..Len(calls) :
              /\ calls[k].min_dimension = calls[k - 1].max_dimension + 1
              /\ calls[k].approximation # calls[k - 1].approximation
        /\ calls[Len(calls)].max_dimension = args.max_dim

ScheduleShorter == Len(args.approximation) < args.max_dim - args.min_dim + 1

\* what C4 says of the final chunk: it is [last scheduled dimension + 1, max_dim],
\* it follows a chunk that ends at the last scheduled dimension, and it is exact
ExactTailChunk ==
    LET dc == result.dim_chunks
        n == Len(dc)
        size == Len(args.approximation)
    IN /\ n >= 2
       /\ upper_of(dc[n - 1]) = args.min_dim + size - 1
       /\ dc[n][1] = args.min_dim + size
       /\ upper_of(dc[n]) = args.max_dim
       /\ result.approx_chunks[n] = -1

\* C4, as stated: whenever the schedule is shorter than max_dim - min_dim + 1, the
\* dimensions after the last scheduled one up to max_dim form one final chunk of
\* approximation value -1.
C4_ShortScheduleTailOriginal == (ChunkAccepted /\ ScheduleShorter) => ExactTailChunk

\* C4, amended: whenever the schedule is shorter than max_dim - min_dim + 1 and its
\* last entry is not -1, the dimensions after the last scheduled one up to max_dim
\* form one final chunk of approximation value -1.
C4_ShortScheduleTail ==
    (ChunkAccepted /\ ScheduleShorter /\ Last(args.approximation) # -1) => ExactTailChunk

C4_Witness ==
    /\ ChunkAccepted
    /\ ScheduleShorter
    /\ Last(args.approximation) # -1
    /\ args.max_dim # Inf
    /\ Len(args.approximation) >= 2

\* C5: when the schedule ends in -1 the final chunk starts at the first dimension
\* of the last run of -1 entries, ends in the unbounded marker -1 and is exact;
\* when max_dim is unbounded and the schedule does not end in -1 the final chunk
\* is [last scheduled dimension + 1, unbounded] and exact.
C5_OpenEndedFinalChunk ==
    ChunkAccepted =>
        LET dc == result.dim_chunks
            n == Len(dc)
            runs == RunsOf(args.min_dim, args.approximation)
        IN /\ Last(args.approximation) = -1 =>
                 /\ dc[n][1] = Last(runs)[1]
                 /\ Last(dc[n]) = -1
                 /\ result.approx_chunks[n] = -1
           /\ (Last(args.approximation) # -1 /\ args.max_dim = Inf) =>
                 /\ dc[n] = <<args.min_dim + Len(args.approximation), Inf>>
                 /\ result.approx_chunks[n] = -1

\* C6: chunk_approx_and_dims ends in an assertion error, with no chunks, exactly
\* when max_dim is bounded and the schedule has more than max_dim - min_dim + 1
\* entries.
C6_TooLongScheduleRejected ==
    ChunkDone =>
        /\ outcome = "AssertionError" <=>
              (args.max_dim # Inf /\ Len(args.approximation) > args.max_dim - args.min_dim + 1)
        /\ outcome = "AssertionError" =>
              (result.dim_chunks = <<>> /\ result.approx_chunks = <<>>)

C6_Witness ==
    /\ ChunkDone
    /\ outcome = "AssertionError"
    /\ args.max_dim >= args.min_dim
    /\ Len(args.approximation) = args.max_dim - args.min_dim + 2

\* C7: on a valid matrix betti_counts accepts approximation None with any min_dim
\* and a schedule with min_dim = 0, and ends in an assertion error exactly when a
\* schedule comes with min_dim # 0.
C7_ApproximationNeedsMinDimZero ==
    BettiValidMatrix =>
        /\ args.approximation.kind = "None" => outcome = "ok"
        /\ (args.approximation.kind = "list" /\ args.min_dim = 0) =>
              outcome \notin {"AssertionError", "TypeError"}
        /\ args.approximation.kind = "list" =>
              (outcome = "AssertionError" <=> args.min_dim # 0)

\* C8: betti_counts and persistence with max_dim < min_dim fail, and no solver
\* invocation has been made, whatever the form of the approximation argument.
C8_MalformedRangeFailsFast ==
    (pc = "done" /\ op \in {"betti_counts", "persistence"} /\ args.max_dim < args.min_dim) =>
        (outcome # "ok" /\ calls = <<>>)

CountingOps ==
    {"simplex_counts", "node_participation", "list_simplices_by_dimension",
     "betti_counts", "filtered_simplex_counts"}

\* C9: in the five counting entry points (filtered_simplex_counts with a valid
\* method) a matrix that is not square or has a non-zero diagonal entry ends the
\* call in an assertion error, and no solver invocation has been made.
C9_InvalidMatrixFailsFast ==
    (/\ pc = "done"
     /\ op \in CountingOps
     /\ ~SquareZeroDiagonal(args.adj)
     /\ op = "filtered_simplex_counts" => args.method \in {"strength", "distance"}) =>
        (outcome = "AssertionError" /\ calls = <<>>)

\* C10: when a call of list_simplices_by_dimension with a node subset has ended,
\* normally or by an error of the solver, no temporary file it created exists.
C10_TemporaryFilesRemoved ==
    (pc = "done" /\ op = "list_simplices_by_dimension" /\ ~args.nodes.none) =>
        created \cap files = {}

AtWeightDone == pc = "done" /\ op = "at_weight_edges"
ValidMethod == args.method \in {"strength", "distance"}

\* the weights that a threshold lets pass: w >= t for strength, w <= t for distance
Passes(method, w, t) == (method = "strength" /\ w >= t) \/ (method = "distance" /\ w <= t)

\* C11: at_weight_edges(adj, t, method) returns a new matrix whose stored edges are
\* exactly the stored edges of adj whose weight w satisfies w >= t (strength) or
\* w <= t (distance), each with its weight unchanged; every other position is
\* absent, and adj is as it was before the call.
C11_ThresholdKeepsPassingEdges ==
    (AtWeightDone /\ ValidMethod) =>
        /\ outcome = "ok"
        /\ result.adj.rows = args.adj.rows
        /\ result.adj.cols = args.adj.cols
        /\ Stored(result.adj) =
              {p \in Stored(args.adj) : Passes(args.method, args.adj.data[p], args.threshold)}
        /\ \A p \in Stored(result.adj) : result.adj.data[p] = args.adj.data[p]
        /\ result.weighted_adj = args.adj

\* a threshold that equals a stored weight, keeps an edge and drops another
C11_Witness ==
    /\ AtWeightDone
    /\ outcome = "ok"
    /\ \E p, q \in Stored(args.adj) :
          /\ args.adj.data[p] = args.threshold
          /\ p \in Stored(result.adj)
          /\ q \notin Stored(result.adj)

FiltrationDone == pc = "done" /\ op = "filtration_weights"

StrictlyDescending(s) == \A i, j \in 1..Len(s) : i < j => s[i] > s[j]
StrictlyAscending(s) == \A i, j \in 1..Len(s) : i < j => s[i] < s[j]

\* C12: filtration_weights returns every distinct stored weight of the matrix exactly
\* once, strictly descending for strength and strictly ascending for distance, and
\* the sequence of one method is the sequence of the other read backwards.
C12_FiltrationWeightsOrdered ==
    (FiltrationDone /\ ValidMethod) =>
        LET w == result.weights
            other == filtration_weights(args.adj,
                        IF args.method = "strength" THEN "distance" ELSE "strength").weights
        IN /\ outcome = "ok"
           /\ {w[i] : i \in 1..Len(w)} = {args.adj.data[p] : p \in Stored(args.adj)}
           /\ args.method = "strength" => StrictlyDescending(w)
           /\ args.method = "distance" => StrictlyAscending(w)
           /\ Len(other) = Len(w)
           /\ \A i \in 1..Len(w) : w[i] = other[Len(w) + 1 - i]

\* two edges of different weight, method strength
C12_Witness ==
    /\ FiltrationDone
    /\ args.method = "strength"
    /\ Len(result.weights) >= 2

FilteredDone == pc = "done" /\ op = "filtered_simplex_counts"
FilteredOk == FilteredDone /\ outcome = "ok"

\* C13, as stated: filtered_simplex_counts visits the thresholds highest first for
\* strength and lowest first for distance, and each visited sub-network contains
\* the one visited before it.
C13_VisitsInEntryOrder ==
    FilteredOk =>
        /\ Len(calls) = Len(result.weights)
        /\ args.method = "strength" => StrictlyDescending(result.weights)
        /\ args.method = "distance" => StrictlyAscending(result.weights)
        /\ \A k \in 2..Len(calls) : Stored(calls[k - 1].adj) \subseteq Stored(calls[k].adj)

\* C13, amended: filtered_simplex_counts visits the thresholds against the order of
\* entry, lowest first for strength and highest first for distance: the first
\* visited sub-network has every edge, and each later one is contained in the one
\* visited before it.
C13_VisitsAgainstEntryOrder ==
    FilteredOk =>
        /\ Len(calls) = Len(result.weights)
        /\ args.method = "strength" => StrictlyAscending(result.weights)
        /\ args.method = "distance" => StrictlyDescending(result.weights)
        /\ Len(calls) >= 1 => Stored(calls[1].adj) = Stored(args.adj)
        /\ \A k \in 2..Len(calls) : Stored(calls[k].adj) \subseteq Stored(calls[k - 1].adj)

C13_Witness ==
    /\ FilteredOk
    /\ ~args.binned
    /\ args.method = "strength"
    /\ Len(calls) >= 2
    /\ Stored(calls[2].adj) # Stored(calls[1].adj)

\* (j, i) for (i, j)
Swap(p) == <<p[2], p[1]>>

\* the pairs i < j that the input joins in at least one direction, in both directions
JoinedEitherWay(adj) ==
    {p \in DOMAIN adj.data : p[1] < p[2] /\ (adj.data[p] # 0 \/ adj.data[Swap(p)] # 0)}
JoinedBothWays(adj) ==
    {p \in DOMAIN adj.data : p[1] < p[2] /\ adj.data[p] # 0 /\ adj.data[Swap(p)] # 0}

SymmetrizingOps ==
    {"simplex_counts", "node_participation", "list_simplices_by_dimension", "betti_counts"}

\* C14: the matrix that simplex_counts, node_participation,
\* list_simplices_by_dimension and betti_counts pass to the solver for type
\* undirected has an entry at (i, j) exactly when i < j and the input has a
\* non-zero entry at (i, j) or at (j, i), whatever the weights.
C14_UndirectedIsSymmetricClosure ==
    (/\ pc = "done"
     /\ op \in SymmetrizingOps
     /\ args.simplex_type = "undirected"
     /\ SquareZeroDiagonal(args.adj)) =>
        \A k \in 1..Len(calls) : Stored(calls[k].adj) = JoinedEitherWay(args.adj)

SimplexCountsDone == pc = "done" /\ op = "simplex_counts"
SimplexCountsOk == SimplexCountsDone /\ outcome = "ok"

\* C15: for type reciprocal the normalized matrix has an entry at (i, j) exactly
\* when i < j and the input has non-zero entries at (i, j) and at (j, i), with the
\* value of the input's entry at (i, j); rc_submatrix leaves its argument as it was.
C15_ReciprocalKeepsForwardEntry ==
    /\ (SimplexCountsOk /\ args.simplex_type = "reciprocal") =>
          /\ Stored(result.adj) = JoinedBothWays(args.adj)
          /\ \A p \in Stored(result.adj) : result.adj.data[p] = args.adj.data[p]
          /\ result.adj.dtype = args.adj.dtype
    /\ (pc = "done" /\ op = "rc_submatrix") =>
          /\ result.adj = args.adj
          /\ Stored(result.rc) =
                {p \in Stored(args.adj) : args.adj.data[Swap(p)] # 0}
          /\ \A p \in Stored(result.rc) : result.rc.data[p] = args.adj.data[p]

\* a reciprocal pair whose two directions have different weights
C15_Witness ==
    /\ SimplexCountsOk
    /\ args.simplex_type = "reciprocal"
    /\ \E p \in Stored(result.adj) : args.adj.data[p] # args.adj.data[Swap(p)]

\* the count of dimension d of a series, a dimension that is absent counting as 0
CountAt(counts, d) == IF d + 1 <= Len(counts) THEN counts[d + 1] ELSE 0

\* C16: for every square zero-diagonal matrix and every dimension, simplex_counts
\* of type undirected is >= simplex_counts of type reciprocal, which is >= 0.
C16_UndirectedAtLeastReciprocal ==
    (SimplexCountsOk /\ args.simplex_type = "undirected" /\ ~args.max_simplices) =>
        LET reciprocal == simplex_counts(args.adj, FALSE, args.max_dim, "reciprocal").counts
        IN \A d \in 0..args.adj.rows :
              /\ CountAt(result.counts, d) >= CountAt(reciprocal, d)
              /\ CountAt(reciprocal, d) >= 0

\* C17: for every valid matrix simplex_counts returns at dimension 0 the number of
\* nodes and at dimension 1 the number of directed edges (directed), of unordered
\* pairs joined in at least one direction (undirected), of unordered pairs joined
\* in both directions (reciprocal).
C17_NodesAndEdgesCounted ==
    (SimplexCountsOk /\ ~args.max_simplices) =>
        /\ CountAt(result.counts, 0) = args.adj.rows
        /\ args.simplex_type = "directed" =>
              CountAt(result.counts, 1) = Cardinality(Stored(args.adj))
        /\ args.simplex_type = "undirected" =>
              CountAt(result.counts, 1) = Cardinality(JoinedEitherWay(args.adj))
        /\ args.simplex_type = "reciprocal" =>
              CountAt(result.counts, 1) = Cardinality(JoinedBothWays(args.adj))

BinDone == pc = "done" /\ op = "bin_weigths"

\* C18: bin_weigths with n_bins bins replaces every weight w by the center of the
\* equal-width bin k, 1 <= k <= n_bins, that contains w, the bins having the width
\* (max - min) / n_bins up to the added tolerance; the maximum weight is assigned
\* to bin n_bins, and the output takes at most n_bins distinct values.
C18_BinsCoverObservedRange ==
    (BinDone /\ args.weights # <<>>) =>
        LET w == in_unit(args.weights, args.unit)
            values == {w[i] : i \in 1..Len(w)}
            \* the width of the bins times n_bins
            range == Max(values) + tol_in(args.unit) - Min(values)
            \* the lower edge of bin k, in the numbers of the result
            edge(k) == result.denom * Min(values) + (k - 1) * 2 * range
        IN /\ outcome = "ok"
           /\ result.denom = 2 * args.n_bins
           /\ \A i \in 1..Len(w) :
                 LET k == result.digits[i]
                 IN /\ k \in 1..args.n_bins
                    /\ edge(k) <= result.denom * w[i]
                    /\ result.denom * w[i] < edge(k + 1)
                    /\ 2 * result.weights[i] = edge(k) + edge(k + 1)
           /\ \A i \in 1..Len(w) : w[i] = Max(values) => result.digits[i] = args.n_bins
           /\ Cardinality({result.weights[i] : i \in 1..Len(w)}) <= args.n_bins

BinnedFilteredOk == FilteredOk /\ args.binned

\* the positions that thresholding the matrix given to filtered_simplex_counts at
\* the binned value c keeps (c counted in the numbers of the result)
RawKept(c) ==
    {p \in Stored(args.adj) : Passes(args.method, result.denom * args.adj.data[p], c)}

\* C19, as stated: binning the weights and then thresholding at a binned value c
\* keeps the same edge positions as thresholding the unbinned matrix at c, and
\* binning an already binned array again with the same n_bins leaves it unchanged
\* (the latter evaluated for the large weights).
C19_BinningCommutesWithThreshold ==
    /\ BinnedFilteredOk =>
          \A k \in 1..Len(calls) : Stored(calls[k].adj) = RawKept(result.weights[k])
    /\ (BinDone /\ outcome = "ok" /\ args.unit = "large") =>
          LET again == bin_weigths(result.weights, args.n_bins, tol_in(args.unit))
          IN /\ again.outcome = "ok"
             /\ \A i \in 1..Len(result.weights) :
                   again.weights[i] = again.denom * result.weights[i]

\* C19, amended: binning the weights and then thresholding at a binned value c
\* keeps every edge position that thresholding the unbinned matrix at c keeps, and
\* besides these only edges whose binned value is c; binning keeps the order of
\* the weights.
C19_BinningWidensThreshold ==
    BinnedFilteredOk =>
        /\ \A k \in 1..Len(calls) :
              /\ RawKept(result.weights[k]) \subseteq Stored(calls[k].adj)
              /\ \A p \in Stored(calls[k].adj) \ RawKept(result.weights[k]) :
                    result.adj.data[p] = result.weights[k]
        /\ \A p, q \in Stored(args.adj) :
              args.adj.data[p] <= args.adj.data[q] => result.adj.data[p] <= result.adj.data[q]

\* a binned value that keeps an edge the unbinned threshold drops, and one it keeps
C19_Witness ==
    /\ BinnedFilteredOk
    /\ args.n_bins >= 2
    /\ \E k \in 1..Len(calls) :
          /\ RawKept(result.weights[k]) # {}
          /\ RawKept(result.weights[k]) # Stored(calls[k].adj)

\* C20: at_weight_edges and filtration_weights fail with an error for every method
\* other than 'strength' and 'distance': they return no matrix or sequence and
\* the matrix given is as it was.
C20_OtherMethodFails ==
    (pc = "done" /\ op \in {"at_weight_edges", "filtration_weights"} /\ ~ValidMethod) =>
        /\ outcome = "ValueError"
        /\ op = "at_weight_edges" =>
              (result.adj = NoMatrix /\ result.weighted_adj = args.adj)
        /\ op = "filtration_weights" =>
              (result.weights = <<>> /\ result.adj = args.adj)

C20_Witness ==
    /\ pc = "done"
    /\ op = "at_weight_edges"
    /\ ~ValidMethod
    /\ outcome = "ValueError"
    /\ \E p \in Stored(args.adj) : args.adj.data[p] >= args.threshold

DegreeDone == pc = "done" /\ op = "node_degree"
KDegreeDone == pc = "done" /\ op = "node_k_degree"

\* C21: a call of node_degree or node_k_degree with a valid direction (and, for
\* node_k_degree, a valid max_dim) does not fail whatever the diagonal holds, and
\* returns what the same call returns for the matrix with its diagonal set to zero.
C21_SelfLoopsContributeNothing ==
    /\ (DegreeDone /\ degree_direction_ok(args.direction)) =>
          /\ outcome = "ok"
          /\ result.table =
                node_degree(ignore_diagonal(args.adj), args.direction, args.weighted).table
    /\ (KDegreeDone /\ k_direction_ok(args.direction) /\ k_max_dim_ok(args.max_dim)) =>
          /\ outcome = "ok"
          /\ result.table =
                node_k_degree(ignore_diagonal(args.adj), args.direction, args.max_dim).table
          /\ result.printed =
                node_k_degree(ignore_diagonal(args.adj), args.direction, args.max_dim).printed

KDegreeTable == KDegreeDone /\ outcome = "ok" /\ ~result.printed

\* the solver's list of the simplices of dimension d of the call
Listed(d) == directed_simplices(ignore_diagonal(args.adj), d)

NoHighSimplex == \A d \in 2..MaxNodes : Listed(d) = {}

\* C23 (as stated): when the network has no simplex of dimension 2 or more,
\* node_k_degree prints its message, returns no table, and has not invoked the solver.
C23_ShortCircuitWithoutSolver ==
    (KDegreeDone /\ outcome = "ok" /\ NoHighSimplex) =>
        /\ result.printed
        /\ result.table = NoTable
        /\ calls = <<>>

\* C23 (amended): node_k_degree invokes the solver exactly once in every call that
\* passes its argument checks; it prints its message and returns no table exactly
\* when the solver reports no simplex of dimension 2 or more.
C23_ShortCircuitAfterSolver ==
    (KDegreeDone /\ outcome = "ok") =>
        /\ Len(calls) = 1
        /\ calls[1].fn = "flagser_count"
        /\ calls[1].return_simplices
        /\ result.printed <=> NoHighSimplex
        /\ result.printed => result.table = NoTable

\* C23 witness: a call on a graph with edges and without 2-simplices that printed
C23_Witness ==
    /\ KDegreeDone /\ outcome = "ok"
    /\ Stored(ignore_diagonal(args.adj)) # {}
    /\ NoHighSimplex
    /\ result.printed
    /\ Len(calls) = 1

CrossDone == pc = "done" /\ op = "cross_col_k_in_degree"

\* the source network with the single edge 0 -> 1 and the cross matrix with the
\* single edge from source node 1 to the one target node A
SingleEdgeExample ==
    /\ args.adj_source.rows = 2
    /\ Stored(args.adj_source) = {<<0, 1>>}
    /\ args.adj_cross.rows = 2 /\ args.adj_cross.cols = 1
    /\ Stored(args.adj_cross) = {<<1, 0>>}

\* C24: cross_col_k_in_degree with the source network 0 -> 1 and the cross matrix
\* 1 -> A returns a table whose every entry is 0.
C24_DegenerateCrossTableIsZero ==
    (CrossDone /\ SingleEdgeExample) =>
        /\ outcome = "ok"
        /\ \A dim \in result.table.columns : \A v \in DOMAIN result.table.value[dim] :
              result.table.value[dim][v] = 0

ListDone == pc = "done" /\ op = "list_simplices_by_dimension"
ListOk == ListDone /\ outcome = "ok"

\* the matrix after "Symmetrize matrix if simplex_type is not 'directed'"
Normalized == symmetrize(args.adj, args.simplex_type)

GivenNodes == IF args.nodes.none THEN NodesIn(args.adj) ELSE args.nodes.ids

\* C26: in every series list_simplices_by_dimension returns without max_simplices,
\* the list of dimension 0 has exactly one row per given node (per node 0..N-1 when
\* none are given), the list of dimension 1 is exactly the edges (i, j) of the
\* normalized matrix with i among the given nodes, and so no row of either list has
\* a first vertex outside the given nodes.
C26_VerticesAndEdgesFromMatrix ==
    (ListOk /\ ~args.max_simplices) =>
        /\ {0, 1} \subseteq result.simplices.dims
        /\ result.simplices.list[0] = {<<v>> : v \in GivenNodes}
        /\ result.simplices.list[1] =
              {<<i, j>> \in Pos(args.adj.rows, args.adj.rows) :
                  Normalized.data[<<i, j>>] # 0 /\ i \in GivenNodes}
        /\ \A d \in {0, 1} : \A s \in result.simplices.list[d] : s[1] \in GivenNodes

\* C26 witness: a call with a proper node subset on a graph that has an edge from a
\* given node and an edge from a node not given
C26_Witness ==
    /\ ListOk /\ ~args.max_simplices /\ ~args.nodes.none
    /\ Cardinality(result.simplices.list[0]) = 1
    /\ result.simplices.list[1] # {}
    /\ \E p \in Stored(Normalized) : p[1] \notin args.nodes.ids

BedgeOk == pc = "done" /\ op = "bedge_counts" /\ outcome = "ok"

\* the listed k-simplices whose p-th and q-th vertices (counted from 0) are joined
\* in both directions in the adjacency matrix of the call
BothWays(k, p, q) ==
    {s \in result.simplices.list[k] :
        /\ args.adj.data[<<s[p + 1], s[q + 1]>>] # 0
        /\ args.adj.data[<<s[q + 1], s[p + 1]>>] # 0}

C27_OneLabelPerBettiNumber ==
    (/\ BettiDone
     /\ BettiValidMatrix
     /\ args.approximation = ApproxNone
     /\ args.min_dim <= args.max_dim) =>
        /\ outcome = "ok"
        /\ result.index = arange(result.n_bettis, args.min_dim)

NormalizedDone == pc = "done" /\ op = "normalized_simplex_counts"

\* C28: every call of normalized_simplex_counts on a square matrix with a zero
\* diagonal, with or without max_simplices, returns a series each of whose entries
\* is a quotient with a denominator that is not 0 and a numerator between 0 and the
\* denominator: the directed count of dimension d is at most (d + 1)! times the
\* undirected count.
C28_NormalizedWithinUnitInterval ==
    (NormalizedDone /\ SquareZeroDiagonal(args.adj)) =>
        /\ outcome = "ok"
        /\ \A d \in DOMAIN result.ratios :
              /\ result.ratios[d].den > 0
              /\ 0 <= result.ratios[d].num
              /\ result.ratios[d].num <= result.ratios[d].den

LibraryFilteredDone == pc = "done" /\ op = "library_filtered_simplex_counts"

\* what the implementation that thresholds the original matrix afresh does on the
\* arguments of the call
Afresh == filtered_simplex_counts(args.adj, args.method, args.binned, args.n_bins)

\* C29: a call of the library filtered_simplex_counts visits the thresholds the
\* implementation that thresholds afresh visits, in the same order; the matrix it
\* hands to simplex_counts at each threshold has the entries of the (binned) matrix
\* thresholded afresh at it; and for a square matrix with a zero diagonal it ends as
\* the other does with the same solver invocations, hence the same counts.
C29_IncrementalThresholdsAsAfresh ==
    LibraryFilteredDone =>
        /\ result.weights = Afresh.weights
        /\ result.adj = Afresh.adj
        /\ Len(result.passed) = Len(result.weights)
        /\ \A k \in 1..Len(result.weights) :
              result.passed[k] =
                  at_weight_edges(result.adj, result.weights[k], args.method).adj
        /\ SquareZeroDiagonal(args.adj) =>
              /\ outcome = Afresh.outcome
              /\ calls = Afresh.calls

\* C29 witness: a call that visits two thresholds, the second of which drops an
\* edge that the first kept
C29_Witness ==
    /\ LibraryFilteredDone /\ outcome = "ok"
    /\ SquareZeroDiagonal(args.adj)
    /\ Len(result.passed) = 2
    /\ Cardinality(Stored(result.passed[1])) = 2
    /\ Cardinality(Stored(result.passed[2])) = 1
    /\ calls = Afresh.calls

BinaryOk == pc = "done" /\ op = "_binary2simplex" /\ outcome = "ok"

\* the words of the file that were read
WordsRead == iloc_to(args.file, args.test)

\* C30: in every result of _binary2simplex a word other than the first begins a
\* new simplex exactly when its top bit is set, and the vertex list of each simplex
\* is the slots of its words, in word order and in a word from the low slot to the
\* high one, without the slots that hold the all-ones value.
C30_SimplexStartsAtFlaggedWords ==
    BinaryOk =>
        /\ \A i \in 2..Len(WordsRead) :
              (result.sid[i] # result.sid[i - 1]) <=>
                  (WordsRead[i] \div TwoTo(3 * SlotBits)) % 2 = 1
        /\ \A g \in DOMAIN result.simplices :
              result.simplices[g] =
                  hstack(WordsRead, {i \in 1..Len(WordsRead) : result.sid[i] = g})

====
